---- MODULE Spec2Model ----
(***************************************************************************)
(* The sqlite3 client of knex (src/clients/sqlite3.js): the connection     *)
(* manager (initialize, query, getConnection, the generic-pool factory)    *)
(* and the query grammar (compileInsert, compileTruncate).                 *)
(***************************************************************************)
EXTENDS Naturals, Sequences, FiniteSets, TLC

(* ------------------------------ bounds -------------------------------- *)

\* Number of calls of exports.query a run makes.
MaxQueries == 3
\* Number of rows of a compiled insert.
MaxRows == 3

(* ------------------------- program constants -------------------------- *)

\* max : 10 of the pool's defaults.
DefaultMax == 10
\* min : 2 of the pool's defaults.
DefaultMin == 2

VARIABLES
    pool,               \* var pool: "undefined", "false" or "Pool"
    factory,            \* the settings the Pool was built with: [max, min]
    connection,         \* var connection: a __cid, 0 while undefined
    connectionSettings, \* var connectionSettings: "undefined" or "set"
    initOptions,        \* the options initialize was called with ("none": not yet)
    conns,              \* every Database made by getConnection, indexed by __cid
    count,              \* generic-pool: resources alive or being created
    availableObjects,   \* generic-pool: idle resources, oldest first
    waitingClients,     \* generic-pool: acquire callbacks not yet served
    calls,              \* every call of exports.query, in call order
    acquires,           \* how often pool.acquire gave query a client
    releases,           \* how often query called pool.release
    lastEvent,          \* what the last step gave the caller: a callback, an exception
    grammarCall         \* the last call of a grammar function and its result

mvars == <<pool, factory, connection, connectionSettings, initOptions, conns,
           count, availableObjects, waitingClients, calls,
           acquires, releases, lastEvent>>
vars == <<pool, factory, connection, connectionSettings, initOptions, conns,
          count, availableObjects, waitingClients, calls,
          acquires, releases, lastEvent, grammarCall>>

(* ------------------------------ helpers ------------------------------- *)

Range(s) == {s[i] : i \in 1..Len(s)}

RemoveAt(s, i) == SubSeq(s, 1, i - 1) \o SubSeq(s, i + 1, Len(s))

IndexOf(s, x) == CHOOSE i \in 1..Len(s) : s[i] = x

\* _.extend(a, b): b's own keys override a's.
Extend(a, b) ==
    [k \in DOMAIN a \cup DOMAIN b |-> IF k \in DOMAIN b THEN b[k] ELSE a[k]]

(* ------------------------------ options ------------------------------- *)

NoPoolOptions == <<>>

\* The options hashes initialize is called with. pool is "absent" (the key is not
\* there), "false", or a hash of pool settings.
InitOptions ==
    { [name |-> "noConnection", connection |-> FALSE, pool |-> "absent", settings |-> NoPoolOptions],
      [name |-> "poolFalse",    connection |-> TRUE,  pool |-> "false",  settings |-> NoPoolOptions],
      [name |-> "poolDefault",  connection |-> TRUE,  pool |-> "absent", settings |-> NoPoolOptions],
      [name |-> "poolMax1",     connection |-> TRUE,  pool |-> "hash",   settings |-> [max |-> 1, min |-> 0]],
      [name |-> "poolMax2",     connection |-> TRUE,  pool |-> "hash",   settings |-> [max |-> 2, min |-> 0]] }

PoolDefaults == [max |-> DefaultMax, min |-> DefaultMin]

\* PoolConfig with the arguments of _.extend swapped: the defaults override the
\* caller's settings.
PoolConfigDefaultsWin(options) == Extend(options.settings, PoolDefaults)

\* The settings handed to genericPool.Pool: the defaults extended by options.pool.
PoolConfig(options) == Extend(PoolDefaults, options.settings)

(* ---------------------------- connections ----------------------------- *)

\* A Database made by exports.getConnection; its __cid is its index in conns.
\* pragma: "none" (no pragma was run), "pending", "done" (it completed).
NewConnection(owner, pragma) == [owner |-> owner, pragma |-> pragma, open |-> TRUE]

\* The __cid the next getConnection gives: _.uniqueId counts up.
NextCid == Len(conns) + 1

(* ------------------------------- calls -------------------------------- *)

Types == {"insert", "update", "select"}

Undefined == [kind |-> "undefined", insertId |-> 0, changes |-> 0, rows |-> <<>>]
RowSet(rows) == [kind |-> "rows", insertId |-> 0, changes |-> 0, rows |-> rows]
InsertResult(id, n) == [kind |-> "record", insertId |-> id, changes |-> n, rows |-> <<>>]

NoOutcome == [err |-> FALSE, hasLastID |-> FALSE, lastID |-> 0, changes |-> 0, resp |-> Undefined]

\* What the engine reports when a statement started with `method` completes: the
\* error flag, the lastID and changes the statement object then carries (run
\* only, and only on success), and the rows (all only).
EngineOutcomes(method) ==
    IF method = "run"
    THEN { [err |-> TRUE,  hasLastID |-> FALSE, lastID |-> 0, changes |-> 0, resp |-> Undefined],
           [err |-> FALSE, hasLastID |-> TRUE,  lastID |-> 7, changes |-> 1, resp |-> Undefined] }
    ELSE { [err |-> TRUE,  hasLastID |-> FALSE, lastID |-> 0, changes |-> 0, resp |-> Undefined],
           [err |-> FALSE, hasLastID |-> FALSE, lastID |-> 0, changes |-> 0, resp |-> RowSet(<<"r1", "r2">>)] }

\* A call of exports.query(querystring, params, callback, connection, type).
\* pc: "waiting" (in pool.acquire), "running" (its statement is in flight),
\* "settled" (the callback was called, or an exception left the code).
\* supplied: the caller passed a connection of its own as the fourth argument.
NewCall(type, supplied) ==
    [type |-> type, supplied |-> supplied, pc |-> "new", client |-> 0, method |-> "none"]

\* A call that is over keeps nothing: what it gave the caller is in lastEvent.
Settled == [type |-> "none", supplied |-> FALSE, pc |-> "settled", client |-> 0, method |-> "none"]

NoEvent ==
    [kind |-> "none", type |-> "none", supplied |-> FALSE, method |-> "none",
     client |-> 0, released |-> <<>>, outcome |-> NoOutcome, err |-> FALSE,
     resp |-> Undefined, thrown |-> "none", acquireFailed |-> FALSE]

\* The caller's callback is called with (err, resp).
CallbackEvent(call, released, out, resp) ==
    [kind |-> "callback", type |-> call.type, supplied |-> call.supplied,
     method |-> call.method, client |-> call.client, released |-> released,
     outcome |-> out, err |-> out.err, resp |-> resp, thrown |-> "none",
     acquireFailed |-> FALSE]

\* An exception leaves the code of a call; the caller's callback is not called.
ThrownEvent(call, what) ==
    [kind |-> "thrown", type |-> call.type, supplied |-> call.supplied,
     method |-> "none", client |-> 0, released |-> <<>>, outcome |-> NoOutcome,
     err |-> FALSE, resp |-> Undefined, thrown |-> what, acquireFailed |-> FALSE]

Issued == 1..Len(calls)

\* The calls whose statement is in flight on a connection of the pool.
RunningPooled == {q \in Issued : calls[q].pc = "running" /\ ~calls[q].supplied}

\* The part of the state the synchronous code of the pool and of query works on.
World == [conns |-> conns, count |-> count, availableObjects |-> availableObjects,
          waitingClients |-> waitingClients, calls |-> calls,
          acquires |-> acquires, releases |-> releases, lastEvent |-> NoEvent]

(* ------------------------ src: query's callbacks ----------------------- *)

\* AcquireCallback with the release misplaced: the client is given back as soon
\* as its statement is started, not in the statement's callback.
AcquireCallbackReleasesEarly(W, q, err, client) ==
    IF err
    THEN [W EXCEPT !.calls[q] = Settled, !.lastEvent = ThrownEvent(W.calls[q], "Error")]
    ELSE LET method == IF W.calls[q].type \in {"insert", "update"} THEN "run" ELSE "all"
         IN  [W EXCEPT !.calls[q].pc = "running", !.calls[q].client = client,
                       !.calls[q].method = method, !.acquires = @ + 1,
                       !.availableObjects = Append(@, client)]

\* The function handed to pool.acquire: throws on err, else starts the statement
\* on the client with run (insert, update) or all.
AcquireCallback(W, q, err, client) ==
    IF err
    THEN [W EXCEPT !.calls[q] = Settled, !.lastEvent = ThrownEvent(W.calls[q], "Error")]
    ELSE LET method == IF W.calls[q].type \in {"insert", "update"} THEN "run" ELSE "all"
         IN  [W EXCEPT !.calls[q].pc = "running", !.calls[q].client = client,
                       !.calls[q].method = method, !.acquires = @ + 1]

(* ----------------------- the pool (generic-pool) ----------------------- *)

\* Create without the wait: the connection is reported ready at once, its
\* pragma still running.
CreateSkipsPragmaWait(W) ==
    [W EXCEPT !.conns = Append(@, NewConnection("pool", "pending")),
              !.availableObjects = Append(@, Len(W.conns) + 1)]

\* The factory's create: getConnection, then run the journal_mode pragma; the
\* pool's callback is called from the pragma's callback (PragmaDone).
Create(W) ==
    [W EXCEPT !.conns = Append(@, NewConnection("pool", "pending"))]

\* createResource: count the resource, then ask the factory for it.
CreateResource(W) == Create([W EXCEPT !.count = @ + 1])

\* dispense: the first waiting client gets the first idle resource; with none
\* idle and fewer than max alive, a resource is created.
Dispense(W) ==
    IF W.waitingClients = <<>> THEN W
    ELSE IF W.availableObjects # <<>>
    THEN AcquireCallback(
             [W EXCEPT !.availableObjects = Tail(@), !.waitingClients = Tail(@)],
             Head(W.waitingClients), FALSE, Head(W.availableObjects))
    ELSE IF W.count < factory.max THEN CreateResource(W)
    ELSE W

\* pool.acquire(callback): queue the callback, then dispense.
Acquire(W, q) == Dispense([W EXCEPT !.waitingClients = Append(@, q), !.calls[q].pc = "waiting"])

\* pool.release(client): the client is idle again, then dispense.
Release(W, client) ==
    Dispense([W EXCEPT !.availableObjects = Append(@, client), !.releases = @ + 1])

(* ------------------------ src: statement callback ---------------------- *)

\* StatementCallback with an early return: an error skips the release.
StatementCallbackLeaksOnError(W, q, out) ==
    LET call == W.calls[q]
        resp == IF out.hasLastID THEN InsertResult(out.lastID, out.changes) ELSE out.resp
        W1 == IF out.err THEN W ELSE Release(W, call.client)
    IN  [W1 EXCEPT !.calls[q] = Settled,
                   !.lastEvent = CallbackEvent(call, IF out.err THEN <<>> ELSE <<call.client>>,
                                               out, resp)]

\* The callback of client[method]: build {insertId, changes} when the statement
\* object has lastID, release the client, call the caller's callback.
StatementCallback(W, q, out) ==
    LET call == W.calls[q]
        resp == IF out.hasLastID THEN InsertResult(out.lastID, out.changes) ELSE out.resp
        W1 == Release(W, call.client)
    IN  [W1 EXCEPT !.calls[q] = Settled,
                   !.lastEvent = CallbackEvent(call, <<call.client>>, out, resp)]

\* connection.run(querystring, params, callback) of the caller's connection: the
\* driver calls the caller's callback itself, with the error only.
DirectCallback(W, q, out) ==
    [W EXCEPT !.calls[q] = Settled,
              !.lastEvent = CallbackEvent(W.calls[q], <<>>, out, Undefined)]

(* ------------------------------ grammar -------------------------------- *)

RECURSIVE Join(_, _)
\* Array.prototype.join on an array of strings.
Join(strs, sep) ==
    IF strs = <<>> THEN ""
    ELSE IF Len(strs) = 1 THEN strs[1]
    ELSE strs[1] \o sep \o Join(Tail(strs), sep)

\* A row is an object: its own keys in insertion order, each with its value.
\* _.keys(row) and _.values(row) list them in that order.
Keys(row) == [i \in 1..Len(row) |-> row[i].k]
Values(row) == [i \in 1..Len(row) |-> row[i].v]

\* grammar.wrapValue: the keyword identifier wrapper.
wrapValue(value) == IF value # "*" THEN "\"" \o value \o "\"" ELSE "*"

\* Grammar.prototype.wrap of the query builder, for a plain identifier (no
\* alias, no dot): the identifier goes through wrapValue.
wrap(value) == wrapValue(value)

\* Grammar.prototype.wrapTable of the query builder, for a plain table name.
wrapTable(table) == wrap(table)

\* Grammar.prototype.columnize of the query builder: the wrapped names, comma-joined.
columnize(columns) == Join([i \in 1..Len(columns) |-> wrap(columns[i])], ", ")

\* Grammar.prototype.parameterize of the query builder: one ? per value.
parameterize(vals) == Join([i \in 1..Len(vals) |-> "?"], ", ")

\* Grammar.prototype.compileInsert of the query builder: the single-row insert.
GenericCompileInsert(qb, values) ==
    "insert into " \o wrapTable(qb.table) \o " (" \o columnize(Keys(values[1]))
        \o ") values (" \o parameterize(Values(values[1])) \o ")"

\* The bindings the query builder keeps for an insert: every row's values, row
\* by row, each row in its own order.
InsertBindings(values) ==
    LET RECURSIVE Flat(_)
        Flat(rows) == IF rows = <<>> THEN <<>> ELSE Values(Head(rows)) \o Flat(Tail(rows))
    IN  Flat(values)

\* if (!_.isArray(values)) values = [values]
AsArray(input) == IF input.isArray THEN input.rows ELSE <<input.row>>

\* The columns array of compileInsert when its second loop is over: the first
\* row's "? as <wrapped key>" list, once per row.
InsertColumns(values) ==
    LET keys == Keys(values[1])
        columns == [i \in 1..Len(keys) |-> "? as " \o wrap(keys[i])]
        joinedColumns == Join(columns, ", ")
    IN  [i \in 1..Len(values) |-> joinedColumns]

\* compileInsert with its second loop one short: the last row gets no clause.
compileInsertOneRowShort(qb, input) ==
    LET values == AsArray(input)
        table == wrapTable(qb.table)
        names == columnize(Keys(values[1]))
    IN  IF Len(values) = 1
        THEN GenericCompileInsert(qb, values)
        ELSE "insert into " \o table \o " (" \o names \o ") select "
                 \o Join(SubSeq(InsertColumns(values), 1, Len(values) - 1), " union select ")

\* grammar.compileInsert: one row goes to the generic compiler; several become
\* a select per row, joined by union select.
compileInsert(qb, input) ==
    LET values == AsArray(input)
        table == wrapTable(qb.table)
        names == columnize(Keys(values[1]))
    IN  IF Len(values) = 1
        THEN GenericCompileInsert(qb, values)
        ELSE "insert into " \o table \o " (" \o names \o ") select "
                 \o Join(InsertColumns(values), " union select ")

\* The names the module's scope binds: its requires and its variables. The
\* module binds no `query`.
ModuleScope ==
    {"sqlite3", "_", "util", "genericPool", "init", "debug", "pool", "connection",
     "connectionSettings", "grammar"}

\* grammar.compileTruncate: the first statement is stored under its text with
\* [qb.from]; the key of the second reads query.from, and reading the unbound
\* `query` throws a ReferenceError before anything is returned.
compileTruncate(qb) ==
    LET first == [text |-> "delete from sqlite_sequence where name = ?", params |-> <<qb.from>>]
    IN  IF "query" \in ModuleScope
        THEN [status |-> "ok", statements |-> <<first>>]
        ELSE [status |-> "ReferenceError", statements |-> <<>>]

Tables == {"t", "users"}

KeyLists == {<<"a", "b">>, <<"b", "a">>, <<"a">>}

ValueLists == {<<1, 2>>, <<3, 4>>}

\* The rows the grammar is given: every key list, with each list of values.
Rows == {[i \in 1..Len(kl) |-> [k |-> kl[i], v |-> vl[i]]] : kl \in KeyLists, vl \in ValueLists}

\* The second argument of compileInsert: one row, or an array of 1..MaxRows rows.
InsertInputs ==
    {[isArray |-> FALSE, row |-> r, rows |-> <<>>] : r \in Rows}
        \cup UNION {{[isArray |-> TRUE, row |-> <<>>, rows |-> rs] : rs \in [1..n -> Rows]}
                    : n \in 1..MaxRows}

\* The query descriptors: the table, and what the descriptor's from property holds.
Descriptors == {[table |-> t, from |-> f] : t \in Tables, f \in Tables \cup {"undefined"}}

(* ------------------------------ actions -------------------------------- *)

SetWorld(W) ==
    /\ conns' = W.conns
    /\ count' = W.count
    /\ availableObjects' = W.availableObjects
    /\ waitingClients' = W.waitingClients
    /\ calls' = W.calls
    /\ acquires' = W.acquires
    /\ releases' = W.releases
    /\ lastEvent' = W.lastEvent

Init ==
    /\ pool = "undefined"
    /\ factory = PoolDefaults
    /\ connection = 0
    /\ connectionSettings = "undefined"
    /\ initOptions = "none"
    /\ conns = <<>>
    /\ count = 0
    /\ availableObjects = <<>>
    /\ waitingClients = <<>>
    /\ calls = <<>>
    /\ acquires = 0
    /\ releases = 0
    /\ lastEvent = NoEvent
    /\ grammarCall = [op |-> "none"]

\* exports.initialize(options)
Initialize(options) ==
    /\ initOptions = "none"
    /\ initOptions' = options.name
    /\ IF ~options.connection
       THEN UNCHANGED <<pool, factory, connection, connectionSettings, conns>>
       ELSE /\ connectionSettings' = "set"
            /\ IF options.pool = "false"
               THEN /\ pool' = "false"
                    /\ connection' = NextCid
                    /\ conns' = Append(conns, NewConnection("single", "none"))
                    /\ UNCHANGED factory
               ELSE /\ pool' = "Pool"
                    /\ factory' = PoolConfig(options)
                    /\ UNCHANGED <<connection, conns>>
    /\ lastEvent' = NoEvent
    /\ UNCHANGED <<count, availableObjects, waitingClients, calls, acquires, releases,
                   grammarCall>>

\* exports.query(querystring, params, callback, connection, type)
Query(type, supplied) ==
    /\ Len(calls) < MaxQueries
    /\ LET q == Len(calls) + 1
           W == [World EXCEPT !.calls = Append(@, NewCall(type, supplied))]
       IN  IF supplied
           THEN SetWorld([W EXCEPT !.calls[q].pc = "running", !.calls[q].method = "run"])
           ELSE IF pool # "Pool"
           THEN SetWorld([W EXCEPT !.calls[q] = Settled,
                                   !.lastEvent = ThrownEvent(W.calls[q], "TypeError")])
           ELSE SetWorld(Acquire(W, q))
    /\ UNCHANGED <<pool, factory, connection, connectionSettings, initOptions, grammarCall>>

\* The pragma of a connection being created completes (the factory's callback
\* takes no argument: an error of the pragma is not looked at). The factory calls
\* the pool back, which serves the first waiting client or, with none, puts the
\* resource with the idle ones.
PragmaDone(c) ==
    /\ conns[c].owner = "pool"
    /\ conns[c].pragma = "pending"
    /\ LET W == [World EXCEPT !.conns[c].pragma = "done"]
       IN  IF W.waitingClients # <<>>
           THEN SetWorld(AcquireCallback([W EXCEPT !.waitingClients = Tail(@)],
                                         Head(W.waitingClients), FALSE, c))
           ELSE SetWorld(Dispense([W EXCEPT !.availableObjects = Append(@, c)]))
    /\ UNCHANGED <<pool, factory, connection, connectionSettings, initOptions, grammarCall>>

\* The statement of call q completes with the engine's outcome.
StatementDone(q, out) ==
    /\ calls[q].pc = "running"
    /\ out \in EngineOutcomes(calls[q].method)
    /\ IF calls[q].supplied
       THEN SetWorld(DirectCallback(World, q, out))
       ELSE SetWorld(StatementCallback(World, q, out))
    /\ UNCHANGED <<pool, factory, connection, connectionSettings, initOptions, grammarCall>>

\* The bounded wait of a waiting acquire runs out with the pool exhausted (max
\* connections, each with a statement in flight): the pool calls the acquire
\* callback with an error.
PoolTimeout(q) ==
    /\ q \in Range(waitingClients)
    /\ Cardinality(RunningPooled) >= factory.max
    /\ LET W == AcquireCallback(
                    [World EXCEPT !.waitingClients = RemoveAt(@, IndexOf(waitingClients, q))],
                    q, TRUE, 0)
       IN  SetWorld([W EXCEPT !.lastEvent.acquireFailed = TRUE])
    /\ UNCHANGED <<pool, factory, connection, connectionSettings, initOptions, grammarCall>>

\* The idle sweep: an idle resource past its timeout is destroyed while more
\* than min are alive; the factory's destroy closes it.
RemoveIdle(c) ==
    /\ c \in Range(availableObjects)
    /\ count > factory.min
    /\ availableObjects' = RemoveAt(availableObjects, IndexOf(availableObjects, c))
    /\ count' = count - 1
    /\ conns' = [conns EXCEPT ![c].open = FALSE]
    /\ lastEvent' = NoEvent
    /\ UNCHANGED <<pool, factory, connection, connectionSettings, initOptions,
                   waitingClients, calls, acquires, releases, grammarCall>>

Next ==
    \/ \E options \in InitOptions : Initialize(options)
    \/ \E type \in Types, supplied \in BOOLEAN : Query(type, supplied)
    \/ \E c \in 1..Len(conns) : PragmaDone(c)
    \/ \E q \in 1..Len(calls) : \E out \in EngineOutcomes(calls[q].method) : StatementDone(q, out)
    \/ \E q \in 1..Len(calls) : PoolTimeout(q)
    \/ \E c \in 1..Len(conns) : RemoveIdle(c)

Spec == Init /\ [][Next]_vars

\* A call of grammar.compileInsert, with the bindings the builder keeps for it.
CompileInsert(qb, input) ==
    /\ grammarCall.op = "none"
    /\ grammarCall' = [op |-> "compileInsert", qb |-> qb, values |-> AsArray(input),
                       sql |-> compileInsert(qb, input),
                       bindings |-> InsertBindings(AsArray(input))]
    /\ UNCHANGED mvars

\* A call of grammar.compileTruncate.
CompileTruncate(qb) ==
    /\ grammarCall.op = "none"
    /\ grammarCall' = [op |-> "compileTruncate", qb |-> qb, result |-> compileTruncate(qb)]
    /\ UNCHANGED mvars

GrammarNext ==
    \/ \E qb \in Descriptors, input \in InsertInputs : CompileInsert(qb, input)
    \/ \E qb \in Descriptors : CompileTruncate(qb)

GrammarSpec == Init /\ [][GrammarNext]_vars

(* ------------------------------- claims -------------------------------- *)

\* The calls whose statement is in flight on pooled connection c.
RunningOn(c) == {q \in Issued : calls[q].pc = "running" /\ ~calls[q].supplied /\ calls[q].client = c}

\* The calls whose statement is in flight on the connection the caller supplied.
RunningSupplied == {q \in Issued : calls[q].pc = "running" /\ calls[q].supplied}

\* The connections of the pool that are alive: created, or being created, and not closed.
Live == {c \in 1..Len(conns) : conns[c].owner = "pool" /\ conns[c].open}

\* The maximum the options given to initialize ask for.
ConfiguredMax ==
    CASE initOptions = "poolMax1" -> 1
      [] initOptions = "poolMax2" -> 2
      [] OTHER -> DefaultMax

\* C1: on the pooled path, the completion of the statement, with or without an
\* error, releases the acquired client exactly once before the caller's callback
\* runs; every client acquired and not released belongs to a statement still in
\* flight, so with no statement in flight releases equal acquires.
C1_ReleaseOncePerAcquire ==
    /\ (lastEvent.kind = "callback" /\ ~lastEvent.supplied)
          => lastEvent.released = <<lastEvent.client>>
    /\ acquires = releases + Cardinality(RunningPooled)
    /\ (RunningPooled = {} => releases = acquires)

\* C1's case: a pooled statement has just failed, a second one had succeeded
\* before, and all that was acquired is released.
C1_Witness ==
    /\ lastEvent.kind = "callback" /\ ~lastEvent.supplied /\ lastEvent.err
    /\ acquires = 2 /\ releases = 2

\* C2: after initialize without a connection configuration the manager stays
\* uninitialized, and a query without a connection of the caller's is a no-op:
\* it raises nothing and starts no statement.
C2_NoConfigQueryIsNoOp ==
    initOptions = "noConnection"
        => /\ pool = "undefined" /\ connection = 0 /\ connectionSettings = "undefined"
           /\ RunningPooled = {}
           /\ ~(lastEvent.kind = "thrown" /\ ~lastEvent.supplied)

\* C3: after initialize with pool === false the manager holds one connection and
\* no pool, and every query without a connection of the caller's runs its
\* statement on that connection: nothing is thrown, nothing acquired or released.
C3_SingleConnectionServesQueries ==
    initOptions = "poolFalse"
        => /\ pool = "false" /\ connection # 0
           /\ Cardinality({c \in 1..Len(conns) : conns[c].owner = "single"}) = 1
           /\ count = 0 /\ acquires = 0 /\ releases = 0
           /\ ~(lastEvent.kind = "thrown" /\ ~lastEvent.supplied)

\* C4 as stated: no connection, pooled or supplied by the caller, has more than
\* one statement in flight.
C4_EveryConnectionExclusive ==
    /\ \A c \in 1..Len(conns) : Cardinality(RunningOn(c)) <= 1
    /\ Cardinality(RunningSupplied) <= 1

\* C4 amended: a connection handed out by the pool has at most one statement in
\* flight, and while it has one it is alive and not among the idle ones.
C4_PooledConnectionExclusive ==
    \A c \in 1..Len(conns) :
        /\ Cardinality(RunningOn(c)) <= 1
        /\ RunningOn(c) # {} => /\ conns[c].owner = "pool" /\ conns[c].open
                                /\ c \notin Range(availableObjects)

\* C4's case: a statement is in flight on the only connection of the pool while
\* another call waits for it.
C4_Witness ==
    /\ factory.max = 1 /\ count = 1
    /\ RunningPooled # {}
    /\ waitingClients # <<>>

C5_Bounded ==
    pool = "Pool" => /\ factory.max = ConfiguredMax
                     /\ Cardinality(Live) <= ConfiguredMax
                     /\ Cardinality(Live) = count

\* A call made with max connections in use and none idle waits.
C5_Suspends ==
    (/\ Len(calls') = Len(calls) + 1
     /\ ~calls'[Len(calls')].supplied
     /\ pool = "Pool"
     /\ Cardinality(RunningPooled) = ConfiguredMax)
        => calls'[Len(calls')].pc = "waiting"

\* A waiting call is served only when none that came before it still waits, and,
\* with max connections in use, only by a release.
C5_Fifo ==
    \A q \in Issued :
        (calls[q].pc = "waiting" /\ calls'[q].pc = "running")
            => /\ \A r \in 1..(q - 1) : calls[r].pc # "waiting"
               /\ Cardinality(RunningPooled) = ConfiguredMax => releases' = releases + 1

\* A new call is served at once only when no earlier call waits.
C5_NoOvertaking ==
    (/\ Len(calls') = Len(calls) + 1
     /\ ~calls'[Len(calls')].supplied
     /\ calls'[Len(calls')].pc = "running")
        => \A r \in Issued : calls[r].pc # "waiting"

\* C5: the connections of the pool alive never exceed the configured maximum M
\* (10 by default); a call made with M in use and none idle waits until a
\* release, and a release serves the call that has waited longest.
C5_PoolBoundAndFifo ==
    /\ []C5_Bounded
    /\ [][C5_Suspends /\ C5_Fifo /\ C5_NoOvertaking]_vars

\* C5's case: with M = 1, the first call's statement has just completed and
\* released; the second call, not the third, got the connection.
C5_Witness ==
    /\ initOptions = "poolMax1" /\ Len(calls) = 3
    /\ lastEvent.kind = "callback" /\ releases = 1
    /\ calls[1].pc = "settled" /\ calls[2].pc = "running" /\ calls[3].pc = "waiting"

\* C6: a failed acquire reaches the caller's callback as its error, and leaves
\* no connection in use for the failed call.
C6_AcquireFailureReachesCallback ==
    lastEvent.acquireFailed
        => /\ lastEvent.kind = "callback" /\ lastEvent.err
           /\ acquires = releases + Cardinality(RunningPooled)

\* C7: a successful insert or update gives the caller {insertId, changes} from
\* the engine's lastID and changes; a successful read gives the engine's rows.
C7_ResultFollowsMode ==
    (lastEvent.kind = "callback" /\ ~lastEvent.err)
        => IF lastEvent.type \in {"insert", "update"}
           THEN /\ lastEvent.outcome.hasLastID
                /\ lastEvent.resp = InsertResult(lastEvent.outcome.lastID, lastEvent.outcome.changes)
           ELSE lastEvent.resp.kind = "rows"

\* C10: a connection of the pool is idle or has a statement of a query in
\* flight only once its pragma has completed; the pool makes no connection
\* without the pragma.
C10_PragmaBeforeUse ==
    \A c \in 1..Len(conns) :
        conns[c].owner = "pool"
            => /\ conns[c].pragma # "none"
               /\ (c \in Range(availableObjects) \/ RunningOn(c) # {}) => conns[c].pragma = "done"

\* C10's case: one connection of the pool runs a statement while the pragma of
\* another, being created for a waiting call, is still pending.
C10_Witness ==
    \E c, d \in 1..Len(conns) :
        /\ RunningOn(c) # {} /\ conns[c].pragma = "done"
        /\ conns[d].owner = "pool" /\ conns[d].pragma = "pending"
        /\ waitingClients # <<>>

\* C8: compileTruncate returns two statements with their parameters: the delete
\* from sqlite_sequence with the descriptor's table name, and the delete from
\* the wrapped table with none.
C8_TruncateTwoStatements ==
    grammarCall.op = "compileTruncate"
        => /\ grammarCall.result.status = "ok"
           /\ grammarCall.result.statements =
                  << [text |-> "delete from sqlite_sequence where name = ?",
                      params |-> <<grammarCall.qb.table>>],
                     [text |-> "delete from \"" \o grammarCall.qb.table \o "\"",
                      params |-> <<>>] >>

\* All rows have the first row's keys, in the first row's order.
IdenticalKeys(values) == \A i \in 1..Len(values) : Keys(values[i]) = Keys(values[1])

RECURSIVE SelectClause(_)
\* "? as <quoted key>, ..." over the keys, in order.
SelectClause(keys) ==
    IF Len(keys) = 1 THEN "? as \"" \o keys[1] \o "\""
    ELSE "? as \"" \o keys[1] \o "\", " \o SelectClause(Tail(keys))

RECURSIVE Unioned(_, _)
\* n copies of the clause, joined by " union select ".
Unioned(n, clause) ==
    IF n = 1 THEN clause ELSE clause \o " union select " \o Unioned(n - 1, clause)

RECURSIVE QuotedList(_)
QuotedList(keys) ==
    IF Len(keys) = 1 THEN "\"" \o keys[1] \o "\""
    ELSE "\"" \o keys[1] \o "\", " \o QuotedList(Tail(keys))

ExampleRows == << <<[k |-> "a", v |-> 1], [k |-> "b", v |-> 2]>>,
                  <<[k |-> "a", v |-> 3], [k |-> "b", v |-> 4]>> >>

====
